---- MODULE Spec2Model ----
(***************************************************************************)
(* LyonRenderer (src/lib.rs): tessellated geometry is accumulated in       *)
(* lyon_buffers, uploaded by prepare into two growable GPU buffers and      *)
(* drawn by render into a caller-supplied render pass.                      *)
(*                                                                          *)
(* Sequences of vertices, indices and bytes are kept run-length encoded: a *)
(* run [src, off, n] stands for the n consecutive items off .. off+n-1 of   *)
(* the data named by src, and a sequence is the concatenation of its runs. *)
(* Zero bytes and older bytes a write left in place behind it are runs of   *)
(* their own.                                                               *)
(***************************************************************************)
EXTENDS Integers, Sequences, FiniteSets, TLC

VARIABLES
    render_pipeline,     \* LyonRenderer.render_pipeline (handle)
    vertex_buffer_size,  \* LyonRenderer.vertex_buffer_size
    vertex_buffer,       \* LyonRenderer.vertex_buffer: [handle, size, content]
    index_buffer_size,   \* LyonRenderer.index_buffer_size
    index_buffer,        \* LyonRenderer.index_buffer: [handle, size, content]
    lyon_buffers,        \* LyonRenderer.lyon_buffers: [vertices, indices]
    queue,               \* queue.write_buffer calls of the most recent call
    pass,                \* commands render recorded in the current frame's pass
    callbacks,           \* the callbacks given to the most recent prepare
    last_call,           \* "new", "prepare", "render" or a helper run alone
    aborted,             \* a panic has unwound out of prepare
    contents,            \* byte length handed to a buffer helper run alone
    format               \* V, the vertex format the renderer is made for

vars == << render_pipeline, vertex_buffer_size, vertex_buffer, index_buffer_size,
           index_buffer, lyon_buffers, queue, pass, callbacks,
           last_call, aborted, contents, format >>

(***************************************************************************)
(* Bounds                                                                   *)
(***************************************************************************)
MaxShapes == 2          \* longest callback list given to prepare
MaxContentLen == 130    \* largest byte length tried on the sizing function
MaxWriteLen == 64       \* largest small byte length tried on write_buffer

(***************************************************************************)
(* Program constants                                                        *)
(***************************************************************************)
COPY_BUFFER_ALIGNMENT == 4      \* wgpu::COPY_BUFFER_ALIGNMENT
InitialBufferSize == 4096       \* argument of next_copy_buffer_size in new
NumAttributes == 3              \* builder_with_attributes(3, ..)
ColorLen == 3                   \* DefaultVertex.color: [f32; 3]
VertexSize == 20                \* size_of::<DefaultVertex>(): 5 f32
IndexSize == 2                  \* size_of::<u16>()
IndexMax == 65535               \* u16::MAX

(***************************************************************************)
(* Run-length encoded sequences                                             *)
(***************************************************************************)
ZeroSrc == [t |-> "zero", k |-> "", base |-> 0]

Zeros(n) == IF n = 0 THEN << >> ELSE << [src |-> ZeroSrc, off |-> 0, n |-> n] >>

\* The bytes of a buffer behind its latest upload: zeros of the allocation or
\* bytes of older uploads. Which of them is not tracked.
RestSrc == [t |-> "rest", k |-> "", base |-> 0]

Rest(n) == IF n <= 0 THEN << >> ELSE << [src |-> RestSrc, off |-> 0, n |-> n] >>

\* n bytes of a slice that is no geometry of a shape
RawSrc == [t |-> "raw", k |-> "", base |-> 0]

Raw(n) == IF n = 0 THEN << >> ELSE << [src |-> RawSrc, off |-> 0, n |-> n] >>

RECURSIVE RLen(_)
RLen(runs) == IF runs = << >> THEN 0 ELSE Head(runs).n + RLen(Tail(runs))

\* the first k items
RECURSIVE RTake(_, _)
RTake(runs, k) ==
    IF k = 0 \/ runs = << >> THEN << >>
    ELSE LET h == Head(runs) IN
         IF h.n <= k THEN << h >> \o RTake(Tail(runs), k - h.n)
         ELSE << [src |-> h.src, off |-> h.off, n |-> k] >>

\* canonical form: no empty run, adjacent runs that continue each other merged
RECURSIVE RNorm(_)
RNorm(runs) ==
    IF runs = << >> THEN << >>
    ELSE LET h == Head(runs)
             r == RNorm(Tail(runs))
         IN  IF h.n = 0 THEN r
             ELSE IF r = << >> THEN << h >>
             ELSE IF /\ r[1].src = h.src
                     /\ (h.src \in {ZeroSrc, RestSrc} \/ r[1].off = h.off + h.n)
                  THEN << [src |-> h.src, off |-> h.off, n |-> h.n + r[1].n] >>
                       \o Tail(r)
             ELSE << h >> \o r

RCat(a, b) == RNorm(a \o b)

\* bytemuck::cast_slice: items of `size` bytes each, seen as bytes
cast_slice(runs, size) ==
    [i \in 1..Len(runs) |->
        [src |-> runs[i].src, off |-> runs[i].off * size, n |-> runs[i].n * size]]

(***************************************************************************)
(* The shapes a callback can describe and what the tessellator emits for   *)
(* them: nv vertices, ni indices, or a rejection by build().               *)
(***************************************************************************)
Shapes ==
    { [k |-> "line", nv |-> 2,   ni |-> 0,    valid |-> TRUE],
      [k |-> "rect", nv |-> 4,   ni |-> 6,    valid |-> TRUE],
      [k |-> "big",  nv |-> 700, ni |-> 2043, valid |-> TRUE],
      [k |-> "bad",  nv |-> 5,   ni |-> 3,    valid |-> FALSE] }

ShapeLists == UNION { [1..n -> Shapes] : n \in 0..MaxShapes }

\* the same with a triangle and with a shape of more indices than a u16 can
\* count
WideShapes ==
    Shapes \cup
    { [k |-> "tri",  nv |-> 3,     ni |-> 3,     valid |-> TRUE],
      [k |-> "over", nv |-> 22002, ni |-> 66000, valid |-> TRUE] }

WideLists == UNION { [1..n -> WideShapes] : n \in 0..MaxShapes }

\* byte lengths tried on create_oversized_buffer alone
ContentLens == (0..MaxContentLen) \cup {4097, 18000, 65536}

\* byte lengths tried on write_buffer alone: the small ones and those next to
\* the size of the buffers of a new renderer
WriteLens ==
    (0..MaxWriteLen) \cup ((InitialBufferSize - 5)..InitialBufferSize)

(***************************************************************************)
(* DefaultVertexConstructor::new_vertex: the interpolated attributes must  *)
(* convert to [f32; 3]; the result is TRUE when the conversion succeeds    *)
(* and FALSE when expect() panics.                                          *)
(***************************************************************************)
new_vertex(num_attributes) == num_attributes = ColorLen

\* struct DefaultVertex: position and a color of ColorLen attributes
DefaultVertex == [name |-> "DefaultVertex", attributes |-> ColorLen]

(***************************************************************************)
(* A vertex format with position, color and z, which a caller can give as  *)
(* V through the trait Vertex. The source defines none; its constructor is  *)
(* taken from the specification of the adapter: four attributes expected,   *)
(* fatal for any other count.                                               *)
(***************************************************************************)
ColorZVertex == [name |-> "ColorZVertex", attributes |-> ColorLen + 1]

new_vertex_color_z(num_attributes) == num_attributes = ColorZVertex.attributes

VertexFormats == { DefaultVertex, ColorZVertex }

\* V::constructor(), then FillVertexConstructor::new_vertex on a vertex that
\* carries num_attributes interpolated attributes
constructor(V, num_attributes) ==
    IF V = DefaultVertex THEN new_vertex(num_attributes)
    ELSE new_vertex_color_z(num_attributes)

(***************************************************************************)
(* VertexBuffers::clear                                                     *)
(***************************************************************************)
\* faulty variant: the accumulated geometry is not cleared
clear_nothing(buffers) == buffers

\* faulty variant: only the vertices are cleared
clear_indices_kept(buffers) ==
    [vertices |-> << >>, indices |-> buffers.indices]

clear(buffers) == [vertices |-> << >>, indices |-> << >>]

(***************************************************************************)
(* One turn of the loop of prepare: the builder of callback `shape` appends *)
(* its vertices and its indices, which address the vertices from the       *)
(* position the shape's first vertex takes in the accumulated sequence.     *)
(* build() rejects malformed geometry and vertices a u16 cannot address;    *)
(* the builder then rolls back what the shape appended and unwrap() panics. *)
(***************************************************************************)
build(buffers, shape) ==
    LET first_vertex == RLen(buffers.vertices) IN
    IF \/ ~shape.valid
       \/ first_vertex + shape.nv > IndexMax
       \/ (shape.nv > 0 /\ ~constructor(format, NumAttributes))
    THEN [ok |-> FALSE, buffers |-> buffers]
    ELSE [ok |-> TRUE,
          buffers |->
            [vertices |-> RCat(buffers.vertices,
                 << [src |-> [t |-> "v", k |-> shape.k, base |-> 0],
                     off |-> 0, n |-> shape.nv] >>),
             indices |-> RCat(buffers.indices,
                 << [src |-> [t |-> "i", k |-> shape.k, base |-> first_vertex],
                     off |-> 0, n |-> shape.ni] >>)]]

\* The per-shape batch entries the renderer holds: LyonRenderer has no field
\* for them, and prepare records none.
batch_entries == << >>

\* faulty variant: a shape build() rejects is skipped and the loop goes on
RECURSIVE tessellate_skipping(_, _)
tessellate_skipping(buffers, cbs) ==
    IF cbs = << >> THEN [ok |-> TRUE, buffers |-> buffers]
    ELSE tessellate_skipping(build(buffers, Head(cbs)).buffers, Tail(cbs))

\* for callback in callbacks { .. builder.build().unwrap(); }
RECURSIVE tessellate(_, _)
tessellate(buffers, cbs) ==
    IF cbs = << >> THEN [ok |-> TRUE, buffers |-> buffers]
    ELSE LET b == build(buffers, Head(cbs)) IN
         IF b.ok THEN tessellate(b.buffers, Tail(cbs)) ELSE b

is_empty(runs) == RLen(runs) = 0

\* faulty variant: prepare goes on unless vertices and indices are both empty
nothing_to_upload_both(buffers) ==
    is_empty(buffers.vertices) /\ is_empty(buffers.indices)

\* prepare, line 178: the test of the early return
nothing_to_upload(buffers) ==
    is_empty(buffers.vertices) \/ is_empty(buffers.indices)

(***************************************************************************)
(* next_copy_buffer_size                                                    *)
(***************************************************************************)
\* u64::next_power_of_two: the smallest power of two >= n (1 for n = 0)
RECURSIVE PowerOfTwoFrom(_, _)
PowerOfTwoFrom(p, n) == IF p >= n THEN p ELSE PowerOfTwoFrom(2 * p, n)

next_power_of_two(n) == PowerOfTwoFrom(1, n)

\* x & !align_mask, for align_mask = COPY_BUFFER_ALIGNMENT - 1
AndNotMask(x) == x - (x % COPY_BUFFER_ALIGNMENT)

Max(a, b) == IF a >= b THEN a ELSE b

\* faulty variant: the size is aligned but not rounded to a power of two
next_copy_buffer_size_aligned_only(size) ==
    LET align_mask == COPY_BUFFER_ALIGNMENT - 1 IN
    Max(AndNotMask(size + align_mask), COPY_BUFFER_ALIGNMENT)

\* faulty variant: a size that is a power of two already is doubled
next_copy_buffer_size_next_greater(size) ==
    LET align_mask == COPY_BUFFER_ALIGNMENT - 1 IN
    Max(AndNotMask(next_power_of_two(size + 1) + align_mask),
        COPY_BUFFER_ALIGNMENT)

next_copy_buffer_size(size) ==
    LET align_mask == COPY_BUFFER_ALIGNMENT - 1 IN
    Max(AndNotMask(next_power_of_two(size) + align_mask), COPY_BUFFER_ALIGNMENT)

(***************************************************************************)
(* Device::create_buffer: a buffer of `size` bytes that is none of the      *)
(* buffers alive (`live`, their handles); a handle is free again once its   *)
(* buffer is dropped.                                                       *)
(***************************************************************************)
create_buffer(live, size) ==
    [handle |-> CHOOSE h \in 1..(Cardinality(live) + 1) :
                    /\ h \notin live
                    /\ \A g \in 1..(h - 1) : g \in live,
     size |-> size,
     content |-> Rest(size)]

(***************************************************************************)
(* write_buffer: pads the slice and hands it to queue.write_buffer at       *)
(* offset 0. The queue refuses (ok = FALSE, a panic) a write whose size is  *)
(* not a multiple of COPY_BUFFER_ALIGNMENT or that overruns the buffer; the *)
(* buffer then stays as it was. `writes` is the call made, refused or not.  *)
(***************************************************************************)
write_buffer(buffer, slice) ==
    LET pad == RLen(slice) % 4
        padded == IF pad # 0 THEN RCat(slice, Zeros(pad)) ELSE slice
        len == RLen(padded)
        writes == << [buffer |-> buffer.handle, offset |-> 0,
                      data |-> padded] >>
    IN  IF len % COPY_BUFFER_ALIGNMENT # 0 \/ len > buffer.size
        THEN [ok |-> FALSE, buffer |-> buffer, writes |-> writes]
        ELSE [ok |-> TRUE,
              buffer |-> [buffer EXCEPT
                             !.content = RCat(padded, Rest(buffer.size - len))],
              writes |-> writes]

\* faulty variant: the length of the contents is returned as the size
create_oversized_buffer_length_returned(live, raw) ==
    LET size == next_copy_buffer_size(RLen(raw))
        buffer == create_buffer(live, size)
    IN  IF size < RLen(raw)
        THEN [ok |-> FALSE, buffer |-> buffer, size |-> RLen(raw)]
        ELSE [ok |-> TRUE,
              buffer |-> [buffer EXCEPT
                             !.content = RCat(raw, Rest(size - RLen(raw)))],
              size |-> RLen(raw)]

(***************************************************************************)
(* create_oversized_buffer: a new buffer, mapped at creation, the contents  *)
(* copied to the start of the mapped range (a panic, ok = FALSE, when the   *)
(* range is shorter than the contents).                                     *)
(***************************************************************************)
create_oversized_buffer(live, raw) ==
    LET size == next_copy_buffer_size(RLen(raw))
        buffer == create_buffer(live, size)
    IN  IF size < RLen(raw)
        THEN [ok |-> FALSE, buffer |-> buffer, size |-> size]
        ELSE [ok |-> TRUE,
              buffer |-> [buffer EXCEPT
                             !.content = RCat(raw, Rest(size - RLen(raw)))],
              size |-> size]

\* faulty variant: a vertex buffer that has room is left as it is
prepare_vertices_unwritten(buffer, buffer_size, vertices, live) ==
    LET vertices_raw == cast_slice(vertices, VertexSize) IN
    IF buffer_size >= RLen(vertices_raw)
    THEN [ok |-> TRUE, buffer |-> buffer, size |-> buffer_size,
          writes |-> << >>]
    ELSE LET c == create_oversized_buffer(live, vertices_raw) IN
         [ok |-> c.ok, buffer |-> c.buffer, size |-> c.size, writes |-> << >>]

\* faulty variant: the size of the new vertex buffer is not recorded
prepare_vertices_size_kept(buffer, buffer_size, vertices, live) ==
    LET vertices_raw == cast_slice(vertices, VertexSize) IN
    IF buffer_size >= RLen(vertices_raw)
    THEN LET w == write_buffer(buffer, vertices_raw) IN
         [ok |-> w.ok, buffer |-> w.buffer, size |-> buffer_size,
          writes |-> w.writes]
    ELSE LET c == create_oversized_buffer(live, vertices_raw) IN
         [ok |-> c.ok, buffer |-> c.buffer, size |-> buffer_size,
          writes |-> << >>]

(***************************************************************************)
(* prepare, lines 180-192: the vertex buffer. The result carries the values *)
(* of the two fields after the statement and the queue writes made.         *)
(***************************************************************************)
prepare_vertices(buffer, buffer_size, vertices, live) ==
    LET vertices_raw == cast_slice(vertices, VertexSize) IN
    IF buffer_size >= RLen(vertices_raw)
    THEN LET w == write_buffer(buffer, vertices_raw) IN
         [ok |-> w.ok, buffer |-> w.buffer, size |-> buffer_size,
          writes |-> w.writes]
    ELSE LET c == create_oversized_buffer(live, vertices_raw) IN
         [ok |-> c.ok, buffer |-> c.buffer, size |-> c.size, writes |-> << >>]

\* faulty variant: the capacity is compared with the number of bytes but recorded as
\* the number of indices
prepare_indices_count_recorded(buffer, buffer_size, indices, live) ==
    LET indices_raw == cast_slice(indices, IndexSize) IN
    IF buffer_size >= RLen(indices_raw)
    THEN LET w == write_buffer(buffer, indices_raw) IN
         [ok |-> w.ok, buffer |-> w.buffer, size |-> buffer_size,
          writes |-> w.writes]
    ELSE LET c == create_oversized_buffer(live, indices_raw) IN
         [ok |-> c.ok, buffer |-> c.buffer, size |-> RLen(indices),
          writes |-> << >>]

\* faulty variant: the index buffer is replaced whether or not it has room
prepare_indices_always_replaced(buffer, buffer_size, indices, live) ==
    LET indices_raw == cast_slice(indices, IndexSize)
        c == create_oversized_buffer(live, indices_raw)
    IN  [ok |-> c.ok, buffer |-> c.buffer, size |-> c.size, writes |-> << >>]

(***************************************************************************)
(* prepare, lines 194-206: the index buffer                                 *)
(***************************************************************************)
prepare_indices(buffer, buffer_size, indices, live) ==
    LET indices_raw == cast_slice(indices, IndexSize) IN
    IF buffer_size >= RLen(indices_raw)
    THEN LET w == write_buffer(buffer, indices_raw) IN
         [ok |-> w.ok, buffer |-> w.buffer, size |-> buffer_size,
          writes |-> w.writes]
    ELSE LET c == create_oversized_buffer(live, indices_raw) IN
         [ok |-> c.ok, buffer |-> c.buffer, size |-> c.size, writes |-> << >>]

(***************************************************************************)
(* LyonRenderer::new                                                        *)
(***************************************************************************)
new ==
    /\ render_pipeline = "pipeline"
    /\ vertex_buffer_size = next_copy_buffer_size(InitialBufferSize)
    /\ vertex_buffer = create_buffer({}, vertex_buffer_size)
    /\ index_buffer_size = next_copy_buffer_size(InitialBufferSize)
    /\ index_buffer = create_buffer({vertex_buffer.handle}, index_buffer_size)
    /\ lyon_buffers = [vertices |-> << >>, indices |-> << >>]
    /\ queue = << >>
    /\ pass = << >>
    /\ callbacks = << >>
    /\ last_call = "new"
    /\ aborted = FALSE

(***************************************************************************)
(* LyonRenderer::prepare                                                    *)
(***************************************************************************)
prepare(cbs) ==
    /\ ~aborted
    /\ last_call' = "prepare"
    /\ callbacks' = cbs
    /\ pass' = << >>
    /\ UNCHANGED << render_pipeline, contents, format >>
    /\ \E t \in { tessellate(clear(lyon_buffers), cbs) } :
         /\ lyon_buffers' = t.buffers
         /\ IF ~t.ok
            THEN \* unwrap() panics
                 /\ aborted' = TRUE
                 /\ queue' = << >>
                 /\ UNCHANGED << vertex_buffer, vertex_buffer_size, index_buffer,
                                 index_buffer_size >>
            ELSE IF nothing_to_upload(t.buffers)
            THEN \* return
                 /\ queue' = << >>
                 /\ UNCHANGED << vertex_buffer, vertex_buffer_size, index_buffer,
                                 index_buffer_size, aborted >>
            ELSE \E v \in { prepare_vertices(vertex_buffer, vertex_buffer_size,
                               t.buffers.vertices,
                               {vertex_buffer.handle, index_buffer.handle}) } :
                 IF ~v.ok
                 THEN /\ aborted' = TRUE
                      /\ queue' = v.writes
                      /\ UNCHANGED << vertex_buffer, vertex_buffer_size,
                                      index_buffer, index_buffer_size >>
                 ELSE \E i \in { prepare_indices(index_buffer, index_buffer_size,
                                    t.buffers.indices,
                                    {v.buffer.handle, index_buffer.handle}) } :
                      /\ vertex_buffer' = v.buffer
                      /\ vertex_buffer_size' = v.size
                      /\ IF ~i.ok
                         THEN /\ aborted' = TRUE
                              /\ queue' = v.writes \o i.writes
                              /\ UNCHANGED << index_buffer, index_buffer_size >>
                         ELSE /\ index_buffer' = i.buffer
                              /\ index_buffer_size' = i.size
                              /\ queue' = v.writes \o i.writes
                              /\ UNCHANGED aborted

(***************************************************************************)
(* LyonRenderer::render: the commands recorded in the render pass. The      *)
(* index counts of the model are far below 2^32, where `as u32` is exact.   *)
(***************************************************************************)
Command(op, target, first, last, instances) ==
    [op |-> op, target |-> target, first |-> first, last |-> last,
     instances |-> instances]

\* faulty variant: returns early only when vertices and indices are both empty
render_commands_both_empty(pipeline, vbuf, ibuf, buffers) ==
    IF is_empty(buffers.vertices) /\ is_empty(buffers.indices) THEN << >>
    ELSE << Command("set_pipeline", pipeline, 0, 0, 0),
            Command("set_vertex_buffer", vbuf.handle, 0, vbuf.size, 0),
            Command("set_index_buffer", ibuf.handle, 0, ibuf.size, 0),
            Command("draw_indexed", "", 0, RLen(buffers.indices), 1) >>

\* faulty variant: the draw ends at the vertex count
render_commands_vertex_count(pipeline, vbuf, ibuf, buffers) ==
    IF is_empty(buffers.vertices) \/ is_empty(buffers.indices) THEN << >>
    ELSE << Command("set_pipeline", pipeline, 0, 0, 0),
            Command("set_vertex_buffer", vbuf.handle, 0, vbuf.size, 0),
            Command("set_index_buffer", ibuf.handle, 0, ibuf.size, 0),
            Command("draw_indexed", "", 0, RLen(buffers.vertices), 1) >>

render_commands(pipeline, vbuf, ibuf, buffers) ==
    IF is_empty(buffers.vertices) \/ is_empty(buffers.indices) THEN << >>
    ELSE << Command("set_pipeline", pipeline, 0, 0, 0),
            Command("set_vertex_buffer", vbuf.handle, 0, vbuf.size, 0),
            Command("set_index_buffer", ibuf.handle, 0, ibuf.size, 0),
            Command("draw_indexed", "", 0, RLen(buffers.indices), 1) >>

\* faulty variant: render drains the geometry it has drawn
render_draining ==
    /\ ~aborted
    /\ pass' = render_commands(render_pipeline, vertex_buffer, index_buffer,
                               lyon_buffers)
    /\ last_call' = "render"
    /\ lyon_buffers' = [vertices |-> << >>, indices |-> << >>]
    /\ UNCHANGED << render_pipeline, vertex_buffer_size, vertex_buffer,
                    index_buffer_size, index_buffer, queue, callbacks,
                    aborted, contents, format >>

render ==
    /\ ~aborted
    /\ pass' = render_commands(render_pipeline, vertex_buffer, index_buffer,
                               lyon_buffers)
    /\ last_call' = "render"
    /\ UNCHANGED << render_pipeline, vertex_buffer_size, vertex_buffer,
                    index_buffer_size, index_buffer, lyon_buffers, queue,
                    callbacks, aborted, contents, format >>

Init == new /\ contents = 0 /\ format = DefaultVertex

Prepare == \E cbs \in ShapeLists : prepare(cbs)

Render == render

Next == Prepare \/ Render

Spec == Init /\ [][Next]_vars

(***************************************************************************)
(* The same renderer, given more shapes, among them one whose indices       *)
(* exceed the u16 range                                                     *)
(***************************************************************************)
PrepareWide == \E cbs \in WideLists : prepare(cbs)

NextWide == PrepareWide \/ Render

SpecWide == Init /\ [][NextWide]_vars

(***************************************************************************)
(* create_oversized_buffer on its own: called once, for the index buffer of *)
(* a new renderer, with a slice of `contents` bytes.                        *)
(***************************************************************************)
InitSize == new /\ contents \in ContentLens /\ format = DefaultVertex

Reallocate ==
    /\ last_call = "new"
    /\ \E c \in { create_oversized_buffer(
                      {vertex_buffer.handle, index_buffer.handle},
                      cast_slice(Raw(contents), 1)) } :
         /\ c.ok
         /\ index_buffer' = c.buffer
         /\ index_buffer_size' = c.size
    /\ last_call' = "create_oversized_buffer"
    /\ UNCHANGED << render_pipeline, vertex_buffer_size, vertex_buffer,
                    lyon_buffers, queue, pass, callbacks, aborted, contents,
                    format >>

NextSize == Reallocate

SpecSize == InitSize /\ [][NextSize]_vars

(***************************************************************************)
(* write_buffer on its own: called once, for the index buffer of a new      *)
(* renderer, with a slice of `contents` bytes that the buffer has room for  *)
(* (the test of prepare, line 195).                                         *)
(***************************************************************************)
InitWrite == new /\ contents \in WriteLens /\ format = DefaultVertex

Write ==
    /\ last_call = "new"
    /\ index_buffer_size >= contents
    /\ \E w \in { write_buffer(index_buffer, cast_slice(Raw(contents), 1)) } :
         /\ aborted' = ~w.ok
         /\ index_buffer' = w.buffer
         /\ queue' = w.writes
    /\ last_call' = "write_buffer"
    /\ UNCHANGED << render_pipeline, vertex_buffer_size, vertex_buffer,
                    index_buffer_size, lyon_buffers, pass, callbacks, contents,
                    format >>

NextWrite == Write

SpecWrite == InitWrite /\ [][NextWrite]_vars

(***************************************************************************)
(* The renderer made for either vertex format                               *)
(***************************************************************************)
InitFormat == new /\ contents = 0 /\ format \in VertexFormats

SpecFormat == InitFormat /\ [][Next]_vars

(***************************************************************************)
(* Properties                                                               *)
(***************************************************************************)
PowersOfTwo == { 2^k : k \in 0..24 }

Aligned(n) == n % COPY_BUFFER_ALIGNMENT = 0

NonEmpty(buffers) == RLen(buffers.vertices) > 0 /\ RLen(buffers.indices) > 0

\* a step that is a call of prepare which returned (no panic)
PrepareReturned == last_call' = "prepare" /\ ~aborted'

CapacityOK ==
    /\ vertex_buffer_size \in PowersOfTwo /\ Aligned(vertex_buffer_size)
    /\ index_buffer_size \in PowersOfTwo /\ Aligned(index_buffer_size)

\* C1: after new and after every prepare, whatever its shape list, the
\* capacity of the vertex buffer and that of the index buffer are powers of
\* two and multiples of the copy alignment, and no prepare lowers either.
C1_Capacity ==
    /\ CapacityOK
    /\ [][ /\ CapacityOK'
           /\ vertex_buffer_size' >= vertex_buffer_size
           /\ index_buffer_size' >= index_buffer_size ]_vars

\* prepare calls have grown both capacities, to different sizes
C1_Witness ==
    /\ last_call = "prepare"
    /\ vertex_buffer_size > InitialBufferSize
    /\ index_buffer_size > InitialBufferSize
    /\ vertex_buffer_size # index_buffer_size

\* C2: a render called before any prepare, or after a prepare that was given
\* no shapes or got no vertices or no indices, records no command at all,
\* also when an earlier prepare had uploaded geometry.
C2_RenderNoop ==
    (last_call = "render" /\ ~NonEmpty(lyon_buffers)) => pass = << >>

\* render after a prepare that got vertices but no indices, the vertex buffer
\* still holding the upload of an earlier prepare
C2_Witness ==
    /\ last_call = "render"
    /\ pass = << >>
    /\ RLen(lyon_buffers.vertices) > 0
    /\ RLen(lyon_buffers.indices) = 0
    /\ Head(vertex_buffer.content).src.t = "v"

\* the items from position k on
RECURSIVE RSkip(_, _)
RSkip(runs, k) ==
    IF k = 0 \/ runs = << >> THEN runs
    ELSE LET h == Head(runs) IN
         IF h.n <= k THEN RSkip(Tail(runs), k - h.n)
         ELSE << [src |-> h.src, off |-> h.off + k, n |-> h.n - k] >>
              \o Tail(runs)

\* the items at positions a .. b-1
RSlice(runs, a, b) == RTake(RSkip(runs, a), b - a)

\* the number of indices (vertices) the shapes before the i-th emit
RECURSIVE IndicesBefore(_, _)
IndicesBefore(cbs, i) ==
    IF i <= 1 THEN 0 ELSE IndicesBefore(cbs, i - 1) + cbs[i - 1].ni

RECURSIVE VerticesBefore(_, _)
VerticesBefore(cbs, i) ==
    IF i <= 1 THEN 0 ELSE VerticesBefore(cbs, i - 1) + cbs[i - 1].nv

\* the indices the i-th shape of cbs emits
EmittedIndices(cbs, i) ==
    RNorm(<< [src |-> [t |-> "i", k |-> cbs[i].k,
                       base |-> VerticesBefore(cbs, i)],
              off |-> 0, n |-> cbs[i].ni] >>)

DrawCommands(p) == SelectSeq(p, LAMBDA c : c.op = "draw_indexed")

VerticesRaw(buffers) == cast_slice(buffers.vertices, VertexSize)

IndicesRaw(buffers) == cast_slice(buffers.indices, IndexSize)

\* a write of the queue that puts `raw` at offset 0 of the buffer `handle`
WrittenInPlace(q, handle, raw) ==
    \E j \in 1..Len(q) :
        /\ q[j].buffer = handle
        /\ q[j].offset = 0
        /\ RTake(q[j].data, RLen(raw)) = raw

\* what C5 says of one buffer, from its fields before (buffer, size) and
\* after (buffer2, size2) a prepare that uploads `raw`
OverwrittenOrReplaced(buffer, size, buffer2, size2, q, raw) ==
    IF size >= RLen(raw)
    THEN /\ buffer2.handle = buffer.handle
         /\ buffer2.size = buffer.size
         /\ size2 = size
         /\ WrittenInPlace(q, buffer.handle, raw)
         /\ RTake(buffer2.content, RLen(raw)) = raw
    ELSE /\ buffer2.handle # buffer.handle
         /\ size2 = buffer2.size
         /\ size2 >= RLen(raw)
         /\ \A j \in 1..Len(q) : q[j].buffer # buffer2.handle

\* C5: on a prepare with geometry, a buffer whose capacity is at least the
\* byte length of its new content keeps its handle and capacity and gets the
\* content written at offset 0; a buffer whose capacity is less is replaced
\* by a new buffer with another handle, whose size becomes the capacity.
C5_OverwriteOrReplace ==
    [][ (PrepareReturned /\ NonEmpty(lyon_buffers')) =>
            /\ OverwrittenOrReplaced(vertex_buffer, vertex_buffer_size,
                   vertex_buffer', vertex_buffer_size', queue',
                   VerticesRaw(lyon_buffers'))
            /\ OverwrittenOrReplaced(index_buffer, index_buffer_size,
                   index_buffer', index_buffer_size', queue',
                   IndicesRaw(lyon_buffers'))
      ]_vars

\* a prepare has overwritten the vertex buffer in place and replaced the
\* index buffer
C5_Witness ==
    /\ last_call = "prepare"
    /\ ~aborted
    /\ Len(queue) = 1
    /\ queue[1].buffer = vertex_buffer.handle
    /\ index_buffer_size > InitialBufferSize

\* C6: a prepare whose geometry is the geometry the prepare before it
\* uploaded overwrites both buffers in place: handles and capacities stay,
\* nothing is allocated.
C6_RepeatOverwrites ==
    [][ ( /\ PrepareReturned
          /\ NonEmpty(lyon_buffers')
          /\ lyon_buffers' = lyon_buffers ) =>
            /\ vertex_buffer'.handle = vertex_buffer.handle
            /\ index_buffer'.handle = index_buffer.handle
            /\ vertex_buffer_size' = vertex_buffer_size
            /\ index_buffer_size' = index_buffer_size
            /\ Len(queue') = 2
            /\ WrittenInPlace(queue', vertex_buffer.handle,
                              VerticesRaw(lyon_buffers'))
            /\ WrittenInPlace(queue', index_buffer.handle,
                              IndicesRaw(lyon_buffers'))
      ]_vars

\* geometry that the initial buffers cannot hold has been written in place
\* into buffers an earlier prepare sized to just fit it
C6_Witness ==
    /\ last_call = "prepare"
    /\ ~aborted
    /\ Len(queue) = 2
    /\ RLen(VerticesRaw(lyon_buffers)) > InitialBufferSize
    /\ RLen(IndicesRaw(lyon_buffers)) > InitialBufferSize
    /\ vertex_buffer_size < 2 * RLen(VerticesRaw(lyon_buffers))
    /\ index_buffer_size < 2 * RLen(IndicesRaw(lyon_buffers))

\* C7: the size of a reallocated buffer is the smallest power of two that is
\* a multiple of the copy alignment and at least the content length, never
\* less than one alignment unit; 18000 bytes give 32768.
C7_SmallestSize ==
    last_call = "create_oversized_buffer" =>
        LET fit == { p \in PowersOfTwo : Aligned(p) /\ p >= contents } IN
        /\ index_buffer_size \in fit
        /\ \A p \in fit : index_buffer_size <= p
        /\ index_buffer_size >= COPY_BUFFER_ALIGNMENT
        /\ index_buffer.size = index_buffer_size
        /\ (contents = 18000 => index_buffer_size = 32768)

\* the buffer for 9000 two-byte indices has been created
C7_Witness ==
    /\ last_call = "create_oversized_buffer"
    /\ contents = 18000
    /\ index_buffer_size = 32768

\* C8: a prepare whose tessellation output has no vertices or no indices
\* leaves both buffers (handle, size, content) and both capacities as they
\* were and writes nothing.
C8_EmptyPrepare ==
    [][ (PrepareReturned /\ ~NonEmpty(lyon_buffers')) =>
            /\ vertex_buffer' = vertex_buffer
            /\ index_buffer' = index_buffer
            /\ vertex_buffer_size' = vertex_buffer_size
            /\ index_buffer_size' = index_buffer_size
            /\ queue' = << >>
      ]_vars

\* a prepare of shapes that gave vertices but no indices has returned, the
\* vertex buffer still holding an earlier upload
C8_Witness ==
    /\ last_call = "prepare"
    /\ ~aborted
    /\ callbacks # << >>
    /\ RLen(lyon_buffers.vertices) > 0
    /\ RLen(lyon_buffers.indices) = 0
    /\ queue = << >>
    /\ Head(vertex_buffer.content).src.t = "v"

\* C9: render changes nothing of the renderer (geometry, buffers,
\* capacities, pipeline) nor of the queue, and a render that follows a render
\* records the same commands.
C9_RenderReadsOnly ==
    [][ last_call' = "render" =>
            /\ UNCHANGED << lyon_buffers, vertex_buffer, index_buffer,
                            vertex_buffer_size, index_buffer_size,
                            render_pipeline, queue >>
            /\ (last_call = "render" => pass' = pass)
      ]_vars

\* render has recorded its commands for uploaded geometry
C9_Witness ==
    /\ last_call = "render"
    /\ Len(pass) = 4
    /\ Len(queue) = 2

\* C10: the accumulated index sequence never holds more than 65535 entries,
\* and no draw of render covers more than 65535 indices.
C10_IndexLimit ==
    /\ RLen(lyon_buffers.indices) <= IndexMax
    /\ \A j \in 1..Len(pass) :
         pass[j].op = "draw_indexed" => pass[j].last - pass[j].first <= IndexMax

\* the vertices the i-th shape of cbs emits
EmittedVertices(cbs, i) ==
    RNorm(<< [src |-> [t |-> "v", k |-> cbs[i].k, base |-> 0],
              off |-> 0, n |-> cbs[i].nv] >>)

\* what the first n shapes of cbs emit, one shape after the other
RECURSIVE Accumulated(_, _)
Accumulated(cbs, n) ==
    IF n = 0 THEN [vertices |-> << >>, indices |-> << >>]
    ELSE LET a == Accumulated(cbs, n - 1) IN
         [vertices |-> RCat(a.vertices, EmittedVertices(cbs, n)),
          indices |-> RCat(a.indices, EmittedIndices(cbs, n))]

\* the position of the first shape of cbs that build() rejects (0: none)
FirstRejected(cbs) ==
    IF \A i \in 1..Len(cbs) : cbs[i].valid THEN 0
    ELSE CHOOSE i \in 1..Len(cbs) :
             ~cbs[i].valid /\ \A j \in 1..(i - 1) : cbs[j].valid

\* C11: a prepare whose list holds a shape that build() rejects panics at
\* the first such shape: the accumulated geometry is that of the shapes
\* before it and of no later shape, nothing is written to the queue, and both
\* buffers and both capacities are as before the call; no call is made on
\* a renderer whose prepare has panicked.
C11_RejectionAborts ==
    [][ /\ ~aborted
        /\ (last_call' = "prepare" /\ FirstRejected(callbacks') > 0) =>
            /\ aborted'
            /\ lyon_buffers'
                  = Accumulated(callbacks', FirstRejected(callbacks') - 1)
            /\ queue' = << >>
            /\ vertex_buffer' = vertex_buffer
            /\ index_buffer' = index_buffer
            /\ vertex_buffer_size' = vertex_buffer_size
            /\ index_buffer_size' = index_buffer_size
      ]_vars

\* prepare has panicked at a rejected first shape that a shape too large for
\* the buffers follows, the buffers holding the upload of an earlier prepare
C11_Witness ==
    /\ last_call = "prepare"
    /\ aborted
    /\ Len(callbacks) = 2
    /\ ~callbacks[1].valid
    /\ callbacks[2].k = "big"
    /\ Head(vertex_buffer.content).src.t = "v"
    /\ vertex_buffer_size = InitialBufferSize

\* C12: the number of attributes a prepare requests from the tessellator
\* for its shapes is the number the renderer's vertex format expects (3 for
\* color only, 4 for color and z), and a prepare in which a vertex with
\* another number of attributes reaches the constructor panics and keeps no
\* vertex.
C12_AttributeCount ==
    /\ (last_call = "prepare" /\ callbacks # << >>) =>
            NumAttributes = format.attributes
    /\ ( /\ last_call = "prepare"
         /\ callbacks # << >>
         /\ callbacks[1].valid
         /\ callbacks[1].nv > 0
         /\ NumAttributes # format.attributes ) =>
            (aborted /\ lyon_buffers.vertices = << >>)

\* the smallest multiple of COPY_BUFFER_ALIGNMENT that is at least n
AlignedUp(n) ==
    CHOOSE m \in n..(n + COPY_BUFFER_ALIGNMENT - 1) : Aligned(m)

C14_RebuiltFromEmpty ==
    (last_call = "prepare" /\ ~aborted) =>
        lyon_buffers = Accumulated(callbacks, Len(callbacks))

\* a prepare of two shapes with little geometry has returned after a prepare
\* whose geometry made the vertex buffer grow
C14_Witness ==
    /\ last_call = "prepare"
    /\ ~aborted
    /\ Len(callbacks) = 2
    /\ NonEmpty(lyon_buffers)
    /\ vertex_buffer_size > InitialBufferSize
    /\ RLen(VerticesRaw(lyon_buffers)) < InitialBufferSize

\* C15: in a prepare with geometry the vertex buffer is kept exactly when
\* the vertex capacity is at least the vertex byte length, and the index
\* buffer exactly when the index capacity is at least the index byte length;
\* when one buffer is replaced and the other has room, the other keeps its
\* handle and its capacity.
C15_Independent ==
    [][ (PrepareReturned /\ NonEmpty(lyon_buffers')) =>
          LET vertex_fits ==
                  vertex_buffer_size >= RLen(VerticesRaw(lyon_buffers'))
              index_fits ==
                  index_buffer_size >= RLen(IndicesRaw(lyon_buffers'))
          IN  /\ (vertex_buffer'.handle = vertex_buffer.handle) <=> vertex_fits
              /\ (index_buffer'.handle = index_buffer.handle) <=> index_fits
              /\ (~vertex_fits /\ index_fits) =>
                     /\ index_buffer'.handle = index_buffer.handle
                     /\ index_buffer'.size = index_buffer.size
                     /\ index_buffer_size' = index_buffer_size
              /\ (vertex_fits /\ ~index_fits) =>
                     /\ vertex_buffer'.handle = vertex_buffer.handle
                     /\ vertex_buffer'.size = vertex_buffer.size
                     /\ vertex_buffer_size' = vertex_buffer_size
      ]_vars

\* a prepare has replaced the vertex buffer and written the index buffer,
\* which is still that of new, in place
C15_Witness ==
    /\ last_call = "prepare"
    /\ ~aborted
    /\ Len(queue) = 1
    /\ queue[1].buffer = index_buffer.handle
    /\ vertex_buffer_size > InitialBufferSize
    /\ index_buffer_size = InitialBufferSize

\* C16: whenever render has issued a draw, the draw covers as many indices
\* as the shapes of the most recent prepare emitted, the buffers bound are
\* the buffers held, the index buffer held starts with exactly those indices
\* (2 bytes each) and the vertex buffer held with exactly the vertices of
\* that prepare.
C16_DrawReadsLatest ==
    (last_call = "render" /\ DrawCommands(pass) # << >>) =>
        LET latest == Accumulated(callbacks, Len(callbacks))
            count == RLen(latest.indices)
        IN  /\ \A j \in 1..Len(pass) :
                 /\ pass[j].op = "draw_indexed" =>
                        (pass[j].first = 0 /\ pass[j].last = count)
                 /\ pass[j].op = "set_index_buffer" =>
                        pass[j].target = index_buffer.handle
                 /\ pass[j].op = "set_vertex_buffer" =>
                        pass[j].target = vertex_buffer.handle
            /\ RTake(index_buffer.content, IndexSize * count)
                  = cast_slice(latest.indices, IndexSize)
            /\ RTake(vertex_buffer.content,
                      VertexSize * RLen(latest.vertices))
                  = cast_slice(latest.vertices, VertexSize)

\* render has drawn the geometry of one shape that was written in place
\* into a vertex buffer grown for the larger geometry of an earlier prepare
C16_Witness ==
    /\ last_call = "render"
    /\ Len(DrawCommands(pass)) = 1
    /\ Len(callbacks) = 1
    /\ Len(queue) = 2
    /\ vertex_buffer_size > InitialBufferSize
    /\ RLen(VerticesRaw(lyon_buffers)) < InitialBufferSize

\* C17: in every state the recorded capacity of the vertex buffer is the
\* size the held vertex buffer was created with, and likewise for the index
\* buffer; after new both are 4096 bytes.
C17_CapacityIsSize ==
    /\ vertex_buffer_size = vertex_buffer.size
    /\ index_buffer_size = index_buffer.size
    /\ last_call = "new" =>
           /\ vertex_buffer.size = InitialBufferSize
           /\ index_buffer.size = InitialBufferSize

\* prepare calls have replaced the vertex buffer by one of four times and
\* the index buffer by one of twice the initial size
C17_Witness ==
    /\ last_call = "prepare"
    /\ ~aborted
    /\ vertex_buffer.size = 4 * InitialBufferSize
    /\ index_buffer.size = 2 * InitialBufferSize

====
